---- MODULE Spec2Model ----
(***************************************************************************)
(* vaultsmith: reconciliation of a declared configuration tree against a  *)
(* Vault server.  The model covers the ConfigWalker (handler map, ordered *)
(* dispatch, fallback traversal), the SysAuth and SysPolicyHandler path   *)
(* handlers (ensure / prune) and the remote they talk to.                 *)
(*                                                                         *)
(* Paths are sequences of components (<<"sys", "auth">> is "sys/auth");   *)
(* duration strings are sequences of one-character strings.               *)
(***************************************************************************)
EXTENDS Integers, Sequences, FiniteSets, TLC

VARIABLES
    dirs,                 \* directories of the declared tree (relative paths)
    authFiles,            \* files under sys/auth, in filepath.Walk order
    policyFiles,          \* files under sys/policy, in filepath.Walk order
    remoteAuth,           \* the server's auth mounts: path -> mount, or NoMount
    remotePolicy,         \* the server's policies: name -> document, or NoPolicy
    HandlerMap,           \* ConfigWalker.HandlerMap: prefix -> handler
    Visited,              \* ConfigWalker.Visited
    paths,                \* walkConfigDir: the slice sortedPaths() returned
    idx,                  \* walkConfigDir: position of the ordered loop in paths
    wi,                   \* position of the fallback filepath.Walk in DirOrder
    liveAuthMap,          \* SysAuth.liveAuthMap
    configuredAuthMap,    \* SysAuth.configuredAuthMap
    authTodo,             \* DisableUnconfiguredAuths: live paths still to range over
    livePolicyList,       \* SysPolicyHandler.livePolicyList
    configuredPolicyList, \* SysPolicyHandler.configuredPolicyList
    deleted,              \* RemoveUndeclaredPolicies: the result list
    fi,                   \* position of the running handler's filepath.Walk
    pi,                   \* position of RemoveUndeclaredPolicies in livePolicyList
    pc,                   \* control position of the run
    cur,                  \* the binding whose handler is running
    via,                  \* who invoked it: the ordered loop or the fallback walk
    hres,                 \* what the running handler returned
    result,               \* what Run returned
    run,                  \* number of the run in progress
    prevResult,           \* what the previous run returned
    startAuth,            \* the server's auth mounts when this run started
    startPolicy,          \* the server's policies when this run started
    calls,                \* remote calls issued in this run, in order
    invoked,              \* handler invocations of this run, in order
    faults,               \* remote failures so far
    walkFailed,           \* handlers whose directory walk returned an error
    pruneRuns             \* prune invocations of this run, per handler

vars == <<dirs, authFiles, policyFiles, remoteAuth, remotePolicy, HandlerMap,
          Visited, paths, idx, wi, liveAuthMap, configuredAuthMap, authTodo,
          livePolicyList, configuredPolicyList, deleted, fi, pi, pc, cur, via,
          hres, result, run, prevResult, startAuth, startPolicy, calls, invoked,
          faults, walkFailed, pruneRuns>>

-----------------------------------------------------------------------------
(* Bounds of the model *)

MaxPolicyFiles == 2
MaxFaults == 1
MaxRuns == 2
MaxOrder == 2

-----------------------------------------------------------------------------
(* Durations: time.ParseDuration as ConvertAuthConfig uses it, on strings  *)
(* of digits and letters (no sign, no fraction), in milliseconds.          *)

Digits == {"0", "1", "2", "3", "4", "5", "6", "7", "8", "9"}

DigitVal(c) ==
    CASE c = "0" -> 0 [] c = "1" -> 1 [] c = "2" -> 2 [] c = "3" -> 3
      [] c = "4" -> 4 [] c = "5" -> 5 [] c = "6" -> 6 [] c = "7" -> 7
      [] c = "8" -> 8 [] c = "9" -> 9

Units == {<<"m", "s">>, <<"s">>, <<"m">>, <<"h">>}

UnitMs(u) ==
    CASE u = <<"m", "s">> -> 1
      [] u = <<"s">> -> 1000
      [] u = <<"m">> -> 60000
      [] u = <<"h">> -> 3600000

RECURSIVE leadingInt(_, _)
leadingInt(s, acc) ==
    IF s # <<>> /\ Head(s) \in Digits
    THEN leadingInt(Tail(s), acc * 10 + DigitVal(Head(s)))
    ELSE [v |-> acc, rest |-> s]

RECURSIVE unitRun(_, _)
unitRun(s, acc) ==
    IF s # <<>> /\ Head(s) \notin Digits
    THEN unitRun(Tail(s), Append(acc, Head(s)))
    ELSE [u |-> acc, rest |-> s]

DurationError == [ok |-> FALSE, ms |-> 0]

RECURSIVE parseTerms(_, _)
parseTerms(s, acc) ==
    IF s = <<>> THEN [ok |-> TRUE, ms |-> acc]
    ELSE IF Head(s) \notin Digits THEN DurationError
    ELSE LET n == leadingInt(s, 0)
             u == unitRun(n.rest, <<>>)
         IN  IF u.u \notin Units THEN DurationError
             ELSE parseTerms(u.rest, acc + n.v * UnitMs(u.u))

ParseDuration(s) ==
    IF s = <<"0">> THEN [ok |-> TRUE, ms |-> 0]
    ELSE IF s = <<>> THEN DurationError
    ELSE parseTerms(s, 0)

\* Seconds that drops the part of a duration below the minute
SecondsOfWholeMinutes(ms) == (ms \div 60000) * 60

\* int(dur.Seconds())
Seconds(ms) == ms \div 1000

\* vaultApi.AuthConfigOutput, the zero value
ZeroOutput ==
    [DefaultLeaseTTL |-> 0, MaxLeaseTTL |-> 0, PluginName |-> "",
     ListingVisibility |-> "", PassthroughRequestHeaders |-> <<>>]

\* ConvertAuthConfig that takes a duration it cannot parse as zero
ConvertAuthConfigLenient(input) ==
    LET d == IF input.DefaultLeaseTTL # <<>>
             THEN ParseDuration(input.DefaultLeaseTTL)
             ELSE [ok |-> TRUE, ms |-> 0]
        m == IF input.MaxLeaseTTL # <<>>
             THEN ParseDuration(input.MaxLeaseTTL)
             ELSE [ok |-> TRUE, ms |-> 0]
    IN  [ok |-> TRUE,
         output |-> [DefaultLeaseTTL |-> Seconds(d.ms),
                     MaxLeaseTTL |-> Seconds(m.ms),
                     PluginName |-> input.PluginName,
                     ListingVisibility |-> input.ListingVisibility,
                     PassthroughRequestHeaders |->
                         input.PassthroughRequestHeaders]]

ConvertAuthConfig(input) ==
    LET d == IF input.DefaultLeaseTTL # <<>>
             THEN ParseDuration(input.DefaultLeaseTTL)
             ELSE [ok |-> TRUE, ms |-> 0]
        m == IF input.MaxLeaseTTL # <<>>
             THEN ParseDuration(input.MaxLeaseTTL)
             ELSE [ok |-> TRUE, ms |-> 0]
    IN  IF ~d.ok \/ ~m.ok
        THEN [ok |-> FALSE, output |-> ZeroOutput]
        ELSE [ok |-> TRUE,
              output |-> [DefaultLeaseTTL |-> Seconds(d.ms),
                          MaxLeaseTTL |-> Seconds(m.ms),
                          PluginName |-> input.PluginName,
                          ListingVisibility |-> input.ListingVisibility,
                          PassthroughRequestHeaders |->
                              input.PassthroughRequestHeaders]]

\* isConfigApplied with the result of the comparison inverted
isConfigAppliedInverted(localConfig, remoteConfig) ==
    LET converted == ConvertAuthConfig(localConfig)
    IN  [ok |-> converted.ok,
         applied |-> converted.ok /\ converted.output # remoteConfig]

\* SysAuth.isConfigApplied: reflect.DeepEqual of the converted local
\* configuration and the remote one
isConfigApplied(localConfig, remoteConfig) ==
    LET converted == ConvertAuthConfig(localConfig)
    IN  [ok |-> converted.ok,
         applied |-> converted.ok /\ converted.output = remoteConfig]

-----------------------------------------------------------------------------
(* The remote (vault.Vault): what the handlers read and change *)

PolicyNames == {"default", "legacy", "ops", "root"}
\* the order in which ListPolicies reports the names
PolicyOrder == <<"default", "legacy", "ops", "root">>
NoPolicy == "<no policy>"

MountPaths == {"_meta/", "ldap/", "old/", "token/"}
NoMount == [Type |-> "<no mount>", Config |-> ZeroOutput]

ListPolicies(remote) == SelectSeq(PolicyOrder, LAMBDA n : remote[n] # NoPolicy)

ListAuth(remote) ==
    [p \in {q \in MountPaths : remote[q] # NoMount} |-> remote[p]]

\* EnableAuth with options: the server reports the mount with the configuration
\* in its own (seconds) representation
EnableAuth(remote, path, opts) ==
    [remote EXCEPT ![path] = [Type |-> opts.Type,
                              Config |-> ConvertAuthConfig(opts.Config).output]]

DisableAuth(remote, path) == [remote EXCEPT ![path] = NoMount]

PutPolicy(remote, name, data) == [remote EXCEPT ![name] = data]

DeletePolicy(remote, name) == [remote EXCEPT ![name] = NoPolicy]

\* the outcomes a remote call can have, given the failures so far: any call
\* can return an error, at most MaxFaults of them do
Outcomes(f) == IF f < MaxFaults THEN BOOLEAN ELSE {TRUE}

Failed(ok) == IF ok THEN 0 ELSE 1

Call(op, id, ok) == [op |-> op, id |-> id, ok |-> ok]

MutatingOps == {"EnableAuth", "DisableAuth", "PutPolicy", "DeletePolicy"}

-----------------------------------------------------------------------------
(* SysPolicyHandler *)

\* fixed policies that should not be deleted from vault under any circumstances
fixedPolicies == {"root", "default"}

InSeq(x, s) == \E i \in 1..Len(s) : s[i] = x

policyExists(live, name) == InSeq(name, live)

\* RemoveUndeclaredPolicies: whether the loop body deletes liveName
ShouldDelete(liveName, configured) ==
    /\ liveName \notin fixedPolicies
    /\ ~InSeq(liveName, configured)

\* RemoveUndeclaredPolicies: the first position at or after i that is deleted,
\* Len(live) + 1 when the loop runs to its end
RECURSIVE NextDelete(_, _, _)
NextDelete(live, configured, i) ==
    IF i > Len(live) \/ ShouldDelete(live[i], configured)
    THEN i
    ELSE NextDelete(live, configured, i + 1)

-----------------------------------------------------------------------------
(* SysAuth *)

\* walkFile: the mount path of the file sys/auth/<name>
sysAuthPath(name) == name \o "/"

\* ToDisable without the test of the mount's type
ToDisableTokenToo(live, configured) ==
    {p \in DOMAIN live : p \notin DOMAIN configured}

\* DisableUnconfiguredAuths: the live mounts the loop body disables
ToDisable(live, configured) ==
    {p \in DOMAIN live : p \notin DOMAIN configured /\ live[p].Type # "token"}

\* AlreadyApplied without the comparison of the configurations
AlreadyAppliedAnyConfig(live, path, config) == path \in DOMAIN live

\* ensureAuth: whether EnableAuth is skipped
AlreadyApplied(live, path, config) ==
    path \in DOMAIN live /\ isConfigApplied(config, live[path].Config).applied

-----------------------------------------------------------------------------
(* ConfigWalker *)

Root == <<>>
SysAuthDir == <<"sys", "auth">>
SysPolicyDir == <<"sys", "policy">>
Star == <<"*">>

\* the order in which filepath.Walk meets the directories of a tree
DirOrder ==
    << Root, <<"*">>, <<"auth">>, <<"auth", "ldap">>, <<"secret">>, <<"sys">>,
       <<"sys", "auth">>, <<"sys", "policy">> >>

WalkList(ds) == SelectSeq(DirOrder, LAMBDA d : d \in ds)

Handler(name, order) == [name |-> name, order |-> order]

\* the sequences a range over the keys of a Go map can produce
Orderings(S) ==
    {s \in [1..Cardinality(S) -> S] :
        \A i, j \in 1..Cardinality(S) : i # j => s[i] # s[j]}

\* Less without the rule for zero
LessPlain(hm, p1, p2) == hm[p1].order < hm[p2].order

\* sortedPaths: the less function given to sort.Slice
Less(hm, p1, p2) ==
    LET h1 == hm[p1]
        h2 == hm[p2]
    IN  IF h1.order = 0 THEN FALSE
        ELSE IF h2.order = 0 THEN TRUE
        ELSE h1.order < h2.order

Swap(s, i, j) == [s EXCEPT ![i] = s[j], ![j] = s[i]]

\* sort.Slice on a slice of fewer than 12 elements is an insertion sort
RECURSIVE insertDown(_, _, _)
insertDown(hm, s, j) ==
    IF j > 1 /\ Less(hm, s[j], s[j - 1])
    THEN insertDown(hm, Swap(s, j, j - 1), j - 1)
    ELSE s

RECURSIVE insertionSort(_, _, _)
insertionSort(hm, s, i) ==
    IF i > Len(s) THEN s ELSE insertionSort(hm, insertDown(hm, s, i), i + 1)

sortedPaths(hm, keys) == insertionSort(hm, keys, 2)

hasParentHandler(hm, path) ==
    \E i \in 1..(Len(path) - 1) :
        /\ SubSeq(path, 1, i) # path
        /\ SubSeq(path, 1, i) \in DOMAIN hm

\* walkFileDecision without the test of Visited
walkFileDecisionRevisiting(hm, visited, path) ==
    IF path = Root THEN "root"
    ELSE IF hasParentHandler(hm, path) THEN "parent"
    ELSE IF path \notin DOMAIN hm THEN "nohandler"
    ELSE "dispatch"

\* ConfigWalker.walkFile: what the fallback walk does with a directory
walkFileDecision(hm, visited, path) ==
    IF path \in visited THEN "visited"
    ELSE IF path = Root THEN "root"
    ELSE IF hasParentHandler(hm, path) THEN "parent"
    ELSE IF path \notin DOMAIN hm THEN "nohandler"
    ELSE "dispatch"

-----------------------------------------------------------------------------
(* Declared trees and live states the runs start from *)

BodyA == "path \"secret/*\" { capabilities = [\"read\"] }"
BodyB == "path \"secret/*\" { capabilities = [\"list\"] }"
DefaultBody == "path \"auth/token/lookup-self\" { capabilities = [\"read\"] }"
RootBody == ""

Str1m == <<"1", "m">>
Str1m10s == <<"1", "m", "1", "0", "s">>
Str1x == <<"1", "x">>

AuthConfigInput(ttl) ==
    [DefaultLeaseTTL |-> ttl, MaxLeaseTTL |-> <<>>, PluginName |-> "",
     ListingVisibility |-> "", PassthroughRequestHeaders |-> <<>>]

\* a file of sys/policy: kind is "ok", "unreadable" (readFile fails) or
\* "malformed" (json.Unmarshal fails); base is the file's base name
PolicyFile(kind, base, policy) == [kind |-> kind, base |-> base, policy |-> policy]

\* a file sys/auth/<name> holding EnableAuthOptions
AuthFile(kind, name, type, ttl) ==
    [kind |-> kind, name |-> name,
     opts |-> [Type |-> type, Config |-> AuthConfigInput(ttl)]]

PolicyFileSet ==
    {PolicyFile("ok", "ops", BodyA), PolicyFile("ok", "ops", BodyB),
     PolicyFile("unreadable", "ops", BodyA), PolicyFile("malformed", "ops", BodyA)}

AuthFileSet ==
    {AuthFile("ok", "ldap", "ldap", Str1m), AuthFile("ok", "ldap", "ldap", <<>>),
     AuthFile("ok", "ldap", "ldap", Str1x),
     AuthFile("unreadable", "ldap", "ldap", <<>>),
     AuthFile("malformed", "ldap", "ldap", <<>>)}

SeqsUpTo(S, n) == UNION {[1..k -> S] : k \in 0..n}

Mount(type, ttl) == [Type |-> type, Config |-> [ZeroOutput EXCEPT !.DefaultLeaseTTL = ttl]]

\* the policy side of a start state: is there a sys/policy directory, its
\* files, and the server's policies
PolicySides ==
    {[dir |-> d, files |-> f, live |-> l] :
        d \in BOOLEAN,
        f \in SeqsUpTo(PolicyFileSet, MaxPolicyFiles),
        l \in {[n \in PolicyNames |->
                   CASE n = "default" -> DefaultBody
                     [] n = "root" -> RootBody
                     [] n = "legacy" -> leg
                     [] n = "ops" -> ops] :
               leg \in {NoPolicy, BodyA}, ops \in {NoPolicy, BodyA}}}

\* the auth side: is there a sys/auth directory, its files, the server's mounts
AuthSides ==
    {[dir |-> d, files |-> f, live |-> l] :
        d \in BOOLEAN,
        f \in SeqsUpTo(AuthFileSet, 1),
        l \in {[p \in MountPaths |->
                   CASE p = "token/" -> Mount("token", 0)
                     [] p = "old/" -> old
                     [] p = "ldap/" -> ldap
                     [] OTHER -> NoMount] :
               old \in {NoMount, Mount("ldap", 0)},
               ldap \in {NoMount, Mount("ldap", 60), Mount("userpass", 60)}}}

\* a directory that does not exist has no files
WellFormed(side) == side.dir \/ side.files = <<>>

EmptyMap == <<>>

NoPrunes == [h \in {"SysAuth", "SysPolicy"} |-> 0]

\* the variables a run starts with
RunStart ==
    /\ HandlerMap = EmptyMap /\ Visited = {} /\ paths = <<>> /\ idx = 1 /\ wi = 1
    /\ liveAuthMap = EmptyMap /\ configuredAuthMap = EmptyMap /\ authTodo = {}
    /\ livePolicyList = <<>> /\ configuredPolicyList = <<>> /\ deleted = <<>>
    /\ fi = 1 /\ pi = 1 /\ cur = Root /\ via = "none" /\ hres = "none"
    /\ result = "running" /\ calls = <<>> /\ invoked = <<>>
    /\ walkFailed = {} /\ pruneRuns = NoPrunes

Init ==
    /\ \E ps \in PolicySides, as \in AuthSides :
        /\ WellFormed(ps) /\ WellFormed(as)
        /\ dirs = {Root, <<"secret">>, <<"sys">>}
                    \cup (IF ps.dir THEN {SysPolicyDir} ELSE {})
                    \cup (IF as.dir THEN {SysAuthDir} ELSE {})
        /\ policyFiles = ps.files /\ remotePolicy = ps.live
        /\ authFiles = as.files /\ remoteAuth = as.live
        /\ startPolicy = ps.live /\ startAuth = as.live
    /\ RunStart
    /\ pc = "start" /\ run = 1 /\ prevResult = "none" /\ faults = 0

-----------------------------------------------------------------------------
(* Actions: construction of the walker and its handlers *)

treeVars == <<dirs, authFiles, policyFiles>>
remoteVars == <<remoteAuth, remotePolicy>>
walkerVars == <<HandlerMap, Visited, paths, idx, wi>>
authVars == <<liveAuthMap, configuredAuthMap, authTodo>>
policyVars == <<livePolicyList, configuredPolicyList, deleted, pi>>
runVars == <<run, prevResult, startAuth, startPolicy>>
ghostVars == <<invoked, walkFailed, pruneRuns>>

\* Bindings that binds the typed handlers whether or not their directory exists
BindingsUnchecked(ds) ==
    (Star :> Handler("Generic", 0))
    @@ (SysAuthDir :> Handler("SysAuth", 0))
    @@ (SysPolicyDir :> Handler("SysPolicy", 0))

\* the bindings NewConfigWalker makes for a tree
Bindings(ds) ==
    (Star :> Handler("Generic", 0))
    @@ (IF SysAuthDir \in ds THEN SysAuthDir :> Handler("SysAuth", 0) ELSE EmptyMap)
    @@ (IF SysPolicyDir \in ds THEN SysPolicyDir :> Handler("SysPolicy", 0)
        ELSE EmptyMap)

\* NewConfigWalker: the handlers read the live state as they are constructed;
\* a failed read ends the process (log.Fatalf)
NewConfigWalker ==
    /\ pc = "start"
    /\ \E okA \in Outcomes(faults) :
       \E okP \in Outcomes(faults + Failed(okA)) :
         LET hasA == SysAuthDir \in dirs
             hasP == SysPolicyDir \in dirs
             fatalA == hasA /\ ~okA
             callA == IF hasA THEN <<Call("ListAuth", "", okA)>> ELSE <<>>
             callP == IF hasP /\ ~fatalA
                      THEN <<Call("ListPolicies", "", okP)>> ELSE <<>>
             fatal == fatalA \/ (hasP /\ ~okP)
         IN  /\ ~hasA => okA
             /\ (~hasP \/ fatalA) => okP
             /\ calls' = calls \o callA \o callP
             /\ faults' = faults + Failed(okA) + Failed(okP)
             /\ IF fatal
                THEN /\ pc' = "done" /\ result' = "fatal"
                     /\ UNCHANGED <<HandlerMap, liveAuthMap, livePolicyList>>
                ELSE /\ pc' = "sort" /\ result' = result
                     /\ HandlerMap' = Bindings(dirs)
                     /\ liveAuthMap' =
                          IF hasA THEN ListAuth(remoteAuth) ELSE EmptyMap
                     /\ livePolicyList' =
                          IF hasP THEN ListPolicies(remotePolicy) ELSE <<>>
    /\ Visited' = {}
    /\ configuredAuthMap' = EmptyMap
    /\ configuredPolicyList' = <<>>
    /\ UNCHANGED <<treeVars, remoteVars, paths, idx, wi, authTodo, deleted, fi, pi,
                   cur, via, hres, runVars, ghostVars>>

-----------------------------------------------------------------------------
(* Actions: ConfigWalker.walkConfigDir *)

\* paths := cw.sortedPaths(): a range over the map, then sort.Slice
SortPaths ==
    /\ pc = "sort"
    /\ \E keys \in Orderings(DOMAIN HandlerMap) :
         paths' = sortedPaths(HandlerMap, keys)
    /\ idx' = 1
    /\ pc' = "loop"
    /\ UNCHANGED <<treeVars, remoteVars, HandlerMap, Visited, wi, authVars,
                   policyVars, fi, cur, via, hres, result, runVars, calls, faults,
                   ghostVars>>

\* handler.PutPoliciesFromDir(p) is entered
Enter(prefix, who) ==
    /\ cur' = prefix
    /\ via' = who
    /\ invoked' = Append(invoked, [prefix |-> prefix, via |-> who])
    /\ fi' = 1
    /\ hres' = "none"
    /\ pc' = "walk"

\* the ordered loop calls the next handler
LoopDispatch ==
    /\ pc = "loop"
    /\ idx <= Len(paths)
    /\ Enter(paths[idx], "loop")
    /\ UNCHANGED <<treeVars, remoteVars, walkerVars, authVars, policyVars, result,
                   runVars, calls, faults, walkFailed, pruneRuns>>

\* the ordered loop is over: filepath.Walk(path, cw.walkFile) starts
LoopEnd ==
    /\ pc = "loop"
    /\ idx > Len(paths)
    /\ wi' = 1
    /\ pc' = "fallback"
    /\ UNCHANGED <<treeVars, remoteVars, HandlerMap, Visited, paths, idx, authVars,
                   policyVars, fi, cur, via, hres, result, runVars, calls, faults,
                   ghostVars>>

\* HandlerReturn that goes on to the next handler whatever was returned
HandlerReturnIgnoringError ==
    /\ pc = "return"
    /\ IF via = "loop"
       THEN /\ Visited' = Visited \cup {cur}
            /\ idx' = idx + 1
            /\ pc' = "loop"
            /\ UNCHANGED <<wi, result>>
       ELSE /\ wi' = wi + 1
            /\ pc' = "fallback"
            /\ UNCHANGED <<Visited, idx, result>>
    /\ UNCHANGED <<treeVars, remoteVars, HandlerMap, paths, authVars, policyVars, fi,
                   cur, via, hres, runVars, calls, faults, ghostVars>>

\* the handler returned to the ordered loop or to the fallback walk
HandlerReturn ==
    /\ pc = "return"
    /\ IF hres = "err"
       THEN /\ pc' = "done" /\ result' = "err"
            /\ UNCHANGED <<Visited, idx, wi>>
       ELSE IF via = "loop"
       THEN /\ Visited' = Visited \cup {cur}
            /\ idx' = idx + 1
            /\ pc' = "loop"
            /\ UNCHANGED <<wi, result>>
       ELSE /\ wi' = wi + 1
            /\ pc' = "fallback"
            /\ UNCHANGED <<Visited, idx, result>>
    /\ UNCHANGED <<treeVars, remoteVars, HandlerMap, paths, authVars, policyVars, fi,
                   cur, via, hres, runVars, calls, faults, ghostVars>>

\* the fallback walk meets the next directory (files return at once)
WalkFile ==
    /\ pc = "fallback"
    /\ wi <= Len(WalkList(dirs))
    /\ LET path == WalkList(dirs)[wi]
       IN  IF walkFileDecision(HandlerMap, Visited, path) = "dispatch"
           THEN /\ Enter(path, "fallback")
                /\ wi' = wi
           ELSE /\ wi' = wi + 1
                /\ UNCHANGED <<fi, pc, cur, via, hres, invoked>>
    /\ UNCHANGED <<treeVars, remoteVars, HandlerMap, Visited, paths, idx, authVars,
                   policyVars, result, runVars, calls, faults, walkFailed,
                   pruneRuns>>

\* the fallback walk is over: Run returns nil
WalkEnd ==
    /\ pc = "fallback"
    /\ wi > Len(WalkList(dirs))
    /\ pc' = "done"
    /\ result' = "ok"
    /\ UNCHANGED <<treeVars, remoteVars, walkerVars, authVars, policyVars, fi, cur,
                   via, hres, runVars, calls, faults, ghostVars>>

-----------------------------------------------------------------------------
(* Actions: SysAuth.PutPoliciesFromDir *)

Running(name) == cur \in DOMAIN HandlerMap /\ HandlerMap[cur].name = name

\* WalkOver one file early
WalkOverEarly(files, i) == i >= Len(files)

\* PutPoliciesFromDir: filepath.Walk has visited every file and returned nil
WalkOver(files, i) == i > Len(files)

\* the handler's filepath.Walk returns an error: PutPoliciesFromDir returns it
WalkError(name) ==
    /\ pc' = "return"
    /\ hres' = "err"
    /\ walkFailed' = walkFailed \cup {name}

\* SysAuth.walkFile on the next file, ensureAuth included; a file of kind
\* "unreadable" fails in readFile, one of kind "malformed" in json.Unmarshal
AuthWalkFile ==
    /\ pc = "walk" /\ Running("SysAuth")
    /\ ~WalkOver(authFiles, fi)
    /\ LET f == authFiles[fi]
           path == sysAuthPath(f.name)
           conv == ConvertAuthConfig(f.opts.Config)
       IN  IF f.kind # "ok" \/ ~conv.ok
           THEN /\ WalkError("SysAuth")
                /\ UNCHANGED <<remoteAuth, configuredAuthMap, fi, calls, faults>>
           ELSE /\ configuredAuthMap' =
                     (path :> [Type |-> f.opts.Type, Config |-> conv.output])
                     @@ configuredAuthMap
                /\ IF AlreadyApplied(liveAuthMap, path, f.opts.Config)
                   THEN /\ fi' = fi + 1
                        /\ UNCHANGED <<remoteAuth, calls, faults, pc, hres,
                                       walkFailed>>
                   ELSE \E ok \in Outcomes(faults) :
                          /\ calls' = Append(calls, Call("EnableAuth", path, ok))
                          /\ faults' = faults + Failed(ok)
                          /\ IF ok
                             THEN /\ remoteAuth' =
                                       EnableAuth(remoteAuth, path, f.opts)
                                  /\ fi' = fi + 1
                                  /\ UNCHANGED <<pc, hres, walkFailed>>
                             ELSE /\ WalkError("SysAuth")
                                  /\ UNCHANGED <<remoteAuth, fi>>
    /\ UNCHANGED <<treeVars, remotePolicy, walkerVars, liveAuthMap, authTodo,
                   policyVars, cur, via, result, runVars, invoked, pruneRuns>>

\* DisableUnconfiguredAuths returns nil
PruneReturn ==
    /\ pc' = "return"
    /\ hres' = "ok"

\* AuthStartPrune that reads the mounts again before it prunes
AuthStartPruneRefreshing ==
    /\ pc = "walk" /\ Running("SysAuth")
    /\ WalkOver(authFiles, fi)
    /\ pruneRuns' = [pruneRuns EXCEPT !["SysAuth"] = @ + 1]
    /\ liveAuthMap' = ListAuth(remoteAuth)
    /\ calls' = Append(calls, Call("ListAuth", "", TRUE))
    /\ authTodo' = DOMAIN liveAuthMap'
    /\ IF ToDisable(liveAuthMap', configuredAuthMap) = {}
       THEN PruneReturn
       ELSE pc' = "prune" /\ hres' = hres
    /\ UNCHANGED <<treeVars, remoteVars, walkerVars, configuredAuthMap,
                   policyVars, fi, cur, via, result, runVars, faults,
                   invoked, walkFailed>>

\* the walk is over without error: DisableUnconfiguredAuths is called
AuthStartPrune ==
    /\ pc = "walk" /\ Running("SysAuth")
    /\ WalkOver(authFiles, fi)
    /\ pruneRuns' = [pruneRuns EXCEPT !["SysAuth"] = @ + 1]
    /\ authTodo' = DOMAIN liveAuthMap
    /\ IF ToDisable(liveAuthMap, configuredAuthMap) = {}
       THEN PruneReturn
       ELSE pc' = "prune" /\ hres' = hres
    /\ UNCHANGED <<treeVars, remoteVars, walkerVars, liveAuthMap, configuredAuthMap,
                   policyVars, fi, cur, via, result, runVars, calls, faults,
                   invoked, walkFailed>>

\* DisableUnconfiguredAuths: the range reaches the next mount it disables, in
\* the order of the map's iteration
AuthPruneStep ==
    /\ pc = "prune" /\ Running("SysAuth")
    /\ \E path \in ToDisable(liveAuthMap, configuredAuthMap) \cap authTodo :
       \E ok \in Outcomes(faults) :
         /\ calls' = Append(calls, Call("DisableAuth", path, ok))
         /\ faults' = faults + Failed(ok)
         /\ authTodo' = authTodo \ {path}
         /\ IF ~ok
            THEN /\ pc' = "return" /\ hres' = "err"
                 /\ UNCHANGED remoteAuth
            ELSE /\ remoteAuth' = DisableAuth(remoteAuth, path)
                 /\ IF ToDisable(liveAuthMap, configuredAuthMap) \cap authTodo'
                         = {}
                    THEN PruneReturn
                    ELSE UNCHANGED <<pc, hres>>
    /\ UNCHANGED <<treeVars, remotePolicy, walkerVars, liveAuthMap,
                   configuredAuthMap, policyVars, fi, cur, via, result, runVars,
                   ghostVars>>

-----------------------------------------------------------------------------
(* Actions: SysPolicyHandler.PutPoliciesFromDir *)

\* isPolicyApplied that takes a policy of the snapshot as applied
isPolicyAppliedIfExists(live, remote, policy, getOk) ==
    [applied |-> policyExists(live, policy.Name), err |-> FALSE]

\* isPolicyApplied: getOk is whether GetPolicy, when called, succeeds
isPolicyApplied(live, remote, policy, getOk) ==
    IF ~policyExists(live, policy.Name) THEN [applied |-> FALSE, err |-> FALSE]
    ELSE IF ~getOk THEN [applied |-> FALSE, err |-> FALSE]
    ELSE [applied |-> policy.Policy = remote[policy.Name], err |-> FALSE]

\* SysPolicyHandler.walkFile on the next file, EnsurePolicy included
PolicyWalkFile ==
    /\ pc = "walk" /\ Running("SysPolicy")
    /\ ~WalkOver(policyFiles, fi)
    /\ LET f == policyFiles[fi]
           policy == [Name |-> f.base, Policy |-> f.policy]
           exists == policyExists(livePolicyList, policy.Name)
       IN  IF f.kind # "ok"
           THEN /\ WalkError("SysPolicy")
                /\ UNCHANGED <<remotePolicy, configuredPolicyList, fi, calls,
                               faults>>
           ELSE \E getOk \in Outcomes(faults) :
                \E putOk \in Outcomes(faults + Failed(getOk)) :
                  LET applied == isPolicyApplied(livePolicyList, remotePolicy,
                                                 policy, getOk)
                      get == IF exists
                             THEN <<Call("GetPolicy", policy.Name, getOk)>>
                             ELSE <<>>
                      put == IF ~applied.err /\ ~applied.applied
                             THEN <<Call("PutPolicy", policy.Name, putOk)>>
                             ELSE <<>>
                  IN  /\ get = <<>> => getOk
                      /\ put = <<>> => putOk
                      /\ configuredPolicyList' =
                           Append(configuredPolicyList, policy.Name)
                      /\ calls' = calls \o get \o put
                      /\ faults' = faults + Failed(getOk) + Failed(putOk)
                      /\ IF applied.err \/ ~putOk
                         THEN /\ WalkError("SysPolicy")
                              /\ UNCHANGED <<remotePolicy, fi>>
                         ELSE /\ remotePolicy' =
                                   IF put = <<>> THEN remotePolicy
                                   ELSE PutPolicy(remotePolicy, policy.Name,
                                                  policy.Policy)
                              /\ fi' = fi + 1
                              /\ UNCHANGED <<pc, hres, walkFailed>>
    /\ UNCHANGED <<treeVars, remoteAuth, walkerVars, authVars, livePolicyList,
                   deleted, pi, cur, via, result, runVars, invoked, pruneRuns>>

\* the walk is over without error: RemoveUndeclaredPolicies is called
PolicyStartPrune ==
    /\ pc = "walk" /\ Running("SysPolicy")
    /\ WalkOver(policyFiles, fi)
    /\ pruneRuns' = [pruneRuns EXCEPT !["SysPolicy"] = @ + 1]
    /\ deleted' = <<>>
    /\ pi' = NextDelete(livePolicyList, configuredPolicyList, 1)
    /\ IF pi' > Len(livePolicyList)
       THEN PruneReturn
       ELSE pc' = "prune" /\ hres' = hres
    /\ UNCHANGED <<treeVars, remoteVars, walkerVars, authVars, livePolicyList,
                   configuredPolicyList, fi, cur, via, result, runVars, calls,
                   faults, invoked, walkFailed>>

\* RemoveUndeclaredPolicies: the loop reaches the next policy it deletes; the
\* error DeletePolicy returns is dropped
PolicyPruneStep ==
    /\ pc = "prune" /\ Running("SysPolicy")
    /\ pi <= Len(livePolicyList)
    /\ \E ok \in Outcomes(faults) :
         /\ calls' = Append(calls, Call("DeletePolicy", livePolicyList[pi], ok))
         /\ faults' = faults + Failed(ok)
         /\ remotePolicy' = IF ok THEN DeletePolicy(remotePolicy, livePolicyList[pi])
                            ELSE remotePolicy
    /\ deleted' = Append(deleted, livePolicyList[pi])
    /\ pi' = NextDelete(livePolicyList, configuredPolicyList, pi + 1)
    /\ IF pi' > Len(livePolicyList)
       THEN PruneReturn
       ELSE UNCHANGED <<pc, hres>>
    /\ UNCHANGED <<treeVars, remoteAuth, walkerVars, authVars, livePolicyList,
                   configuredPolicyList, fi, cur, via, result, runVars, ghostVars>>

-----------------------------------------------------------------------------
(* Actions: the generic handler, and the next run *)

\* the files of a directory outside the typed subtrees: secret holds one
GenericFiles(dir) == IF dir = <<"secret">> THEN <<"secret/app">> ELSE <<>>

\* GenericHandler.PutPoliciesFromDir: every file of the directory is written
\* to the path its place gives; the walker passes it the directory "*" of
\* the tree, which does not exist and so has no files
GenericPutPoliciesFromDir ==
    /\ pc = "walk" /\ Running("Generic")
    /\ calls' = calls \o [k \in 1..Len(GenericFiles(cur)) |->
                             Call("Write", GenericFiles(cur)[k], TRUE)]
    /\ pc' = "return"
    /\ hres' = "ok"
    /\ UNCHANGED <<treeVars, remoteVars, walkerVars, authVars, policyVars, fi, cur,
                   via, result, runVars, faults, ghostVars>>

\* after a run that returned success the program is run again on the same
\* tree, with handlers freshly constructed (a run after a failed run is a
\* first run from the live state the failed one left)
NextRun ==
    /\ pc = "done"
    /\ result = "ok"
    /\ run < MaxRuns
    /\ run' = run + 1
    /\ prevResult' = result
    /\ startAuth' = remoteAuth
    /\ startPolicy' = remotePolicy
    /\ HandlerMap' = EmptyMap /\ Visited' = {} /\ paths' = <<>>
    /\ idx' = 1 /\ wi' = 1
    /\ liveAuthMap' = EmptyMap /\ configuredAuthMap' = EmptyMap /\ authTodo' = {}
    /\ livePolicyList' = <<>> /\ configuredPolicyList' = <<>> /\ deleted' = <<>>
    /\ fi' = 1 /\ pi' = 1 /\ cur' = Root /\ via' = "none" /\ hres' = "none"
    /\ result' = "running" /\ calls' = <<>> /\ invoked' = <<>>
    /\ walkFailed' = {} /\ pruneRuns' = NoPrunes
    /\ pc' = "start"
    /\ UNCHANGED <<treeVars, remoteVars, faults>>

Next ==
    \/ NewConfigWalker
    \/ SortPaths
    \/ LoopDispatch
    \/ LoopEnd
    \/ HandlerReturn
    \/ WalkFile
    \/ WalkEnd
    \/ AuthWalkFile
    \/ AuthStartPrune
    \/ AuthPruneStep
    \/ PolicyWalkFile
    \/ PolicyStartPrune
    \/ PolicyPruneStep
    \/ GenericPutPoliciesFromDir
    \/ NextRun

Spec == Init /\ [][Next]_vars

-----------------------------------------------------------------------------
(* The ConfigWalker on its own: a HandlerMap of any bindings, to handlers  *)
(* that only report success or failure                                     *)

WalkerPrefixes == {<<"auth">>, <<"auth", "ldap">>, <<"secret">>, Star}

WalkerDirs == {Root, <<"auth">>, <<"auth", "ldap">>, <<"secret">>, <<"sys">>}

WalkerMaps ==
    UNION {[K -> {Handler("Mock", o) : o \in 0..MaxOrder}] :
              K \in {S \in SUBSET WalkerPrefixes : S # {} /\ Cardinality(S) <= 3}}

WalkerInit ==
    /\ dirs = WalkerDirs
    /\ policyFiles = <<>> /\ authFiles = <<>>
    /\ remotePolicy = [n \in PolicyNames |-> NoPolicy]
    /\ remoteAuth = [p \in MountPaths |-> NoMount]
    /\ startPolicy = remotePolicy /\ startAuth = remoteAuth
    /\ HandlerMap \in WalkerMaps
    /\ Visited = {} /\ paths = <<>> /\ idx = 1 /\ wi = 1
    /\ liveAuthMap = EmptyMap /\ configuredAuthMap = EmptyMap /\ authTodo = {}
    /\ livePolicyList = <<>> /\ configuredPolicyList = <<>> /\ deleted = <<>>
    /\ fi = 1 /\ pi = 1 /\ cur = Root /\ via = "none" /\ hres = "none"
    /\ result = "running" /\ calls = <<>> /\ invoked = <<>>
    /\ walkFailed = {} /\ pruneRuns = NoPrunes
    /\ pc = "sort" /\ run = 1 /\ prevResult = "none" /\ faults = 0

\* a handler's PutPoliciesFromDir returns nil or an error
MockPutPoliciesFromDir ==
    /\ pc = "walk" /\ Running("Mock")
    /\ \E ok \in Outcomes(faults) :
         /\ faults' = faults + Failed(ok)
         /\ hres' = IF ok THEN "ok" ELSE "err"
    /\ pc' = "return"
    /\ UNCHANGED <<treeVars, remoteVars, walkerVars, authVars, policyVars, fi, cur,
                   via, result, runVars, calls, ghostVars>>

WalkerNext ==
    \/ SortPaths
    \/ LoopDispatch
    \/ LoopEnd
    \/ HandlerReturn
    \/ WalkFile
    \/ WalkEnd
    \/ MockPutPoliciesFromDir

WalkerSpec == WalkerInit /\ [][WalkerNext]_vars

-----------------------------------------------------------------------------
(* The SysAuth handler on its own: constructed on a live state, then one   *)
(* PutPoliciesFromDir on a sys/auth directory with one file, over more     *)
(* configurations than the runs of the whole program start from            *)

AuthConfigInputs ==
    {[DefaultLeaseTTL |-> d, MaxLeaseTTL |-> m, PluginName |-> "",
      ListingVisibility |-> v, PassthroughRequestHeaders |-> <<>>] :
        d \in {<<>>, Str1m, Str1m10s, Str1x}, m \in {<<>>, Str1m10s},
        v \in {"", "unauth"}}

\* the files: a mount ldap, and a file whose name starts with an underscore
DeclaredMounts ==
    {[kind |-> "ok", name |-> n, opts |-> [Type |-> "ldap", Config |-> c]] :
        n \in {"ldap", "_meta"}, c \in AuthConfigInputs}

LiveMounts ==
    {[Type |-> "ldap",
      Config |-> [DefaultLeaseTTL |-> d, MaxLeaseTTL |-> m, PluginName |-> "",
                  ListingVisibility |-> v, PassthroughRequestHeaders |-> <<>>]] :
        d \in {0, 60, 70}, m \in {0, 70}, v \in {"", "unauth"}}

SysAuthInit ==
    /\ dirs = {Root, <<"sys">>, SysAuthDir}
    /\ policyFiles = <<>>
    /\ authFiles \in [1..1 -> DeclaredMounts]
    /\ remotePolicy = [n \in PolicyNames |-> NoPolicy]
    /\ remoteAuth \in {[p \in MountPaths |->
                          CASE p = "token/" -> Mount("token", 0)
                            [] p = "ldap/" -> l
                            [] OTHER -> NoMount] : l \in {NoMount} \cup LiveMounts}
    /\ startPolicy = remotePolicy /\ startAuth = remoteAuth
    /\ HandlerMap = Bindings(dirs)
    /\ Visited = {} /\ paths = <<SysAuthDir>> /\ idx = 1 /\ wi = 1
    /\ liveAuthMap = ListAuth(remoteAuth)
    /\ configuredAuthMap = EmptyMap /\ authTodo = {}
    /\ livePolicyList = <<>> /\ configuredPolicyList = <<>> /\ deleted = <<>>
    /\ fi = 1 /\ pi = 1 /\ cur = SysAuthDir /\ via = "loop" /\ hres = "none"
    /\ result = "running"
    /\ calls = <<Call("ListAuth", "", TRUE)>>
    /\ invoked = <<[prefix |-> SysAuthDir, via |-> "loop"]>>
    /\ walkFailed = {} /\ pruneRuns = NoPrunes
    /\ pc = "walk" /\ run = 1 /\ prevResult = "none" /\ faults = 0

SysAuthNext ==
    \/ AuthWalkFile
    \/ AuthStartPrune
    \/ AuthPruneStep

SysAuthSpec == SysAuthInit /\ [][SysAuthNext]_vars

-----------------------------------------------------------------------------
(* A typed handler on its own: constructed on a live state, then one       *)
(* PutPoliciesFromDir on its directory, which may not exist. For a missing *)
(* directory filepath.Walk calls walkFile once with f == nil, which        *)
(* returns nil: the walk is over with no file visited.                     *)

TypedBindings ==
    (SysAuthDir :> Handler("SysAuth", 0)) @@ (SysPolicyDir :> Handler("SysPolicy", 0))

HandlerInit ==
    /\ \/ \E as \in AuthSides :
            /\ WellFormed(as)
            /\ dirs = {Root, <<"sys">>} \cup (IF as.dir THEN {SysAuthDir} ELSE {})
            /\ authFiles = as.files /\ remoteAuth = as.live
            /\ policyFiles = <<>> /\ remotePolicy = [n \in PolicyNames |-> NoPolicy]
            /\ liveAuthMap = ListAuth(as.live) /\ livePolicyList = <<>>
            /\ cur = SysAuthDir
            /\ calls = <<Call("ListAuth", "", TRUE)>>
       \/ \E ps \in PolicySides :
            /\ WellFormed(ps)
            /\ dirs = {Root, <<"sys">>} \cup (IF ps.dir THEN {SysPolicyDir} ELSE {})
            /\ policyFiles = ps.files /\ remotePolicy = ps.live
            /\ authFiles = <<>> /\ remoteAuth = [p \in MountPaths |-> NoMount]
            /\ livePolicyList = ListPolicies(ps.live) /\ liveAuthMap = EmptyMap
            /\ cur = SysPolicyDir
            /\ calls = <<Call("ListPolicies", "", TRUE)>>
    /\ startPolicy = remotePolicy /\ startAuth = remoteAuth
    /\ HandlerMap = TypedBindings
    /\ Visited = {} /\ paths = <<cur>> /\ idx = 1 /\ wi = 1
    /\ configuredAuthMap = EmptyMap /\ authTodo = {}
    /\ configuredPolicyList = <<>> /\ deleted = <<>>
    /\ fi = 1 /\ pi = 1 /\ via = "loop" /\ hres = "none"
    /\ result = "running"
    /\ invoked = <<[prefix |-> cur, via |-> "loop"]>>
    /\ walkFailed = {} /\ pruneRuns = NoPrunes
    /\ pc = "walk" /\ run = 1 /\ prevResult = "none" /\ faults = 0

HandlerNext ==
    \/ AuthWalkFile
    \/ AuthStartPrune
    \/ AuthPruneStep
    \/ PolicyWalkFile
    \/ PolicyStartPrune
    \/ PolicyPruneStep

HandlerSpec == HandlerInit /\ [][HandlerNext]_vars

-----------------------------------------------------------------------------
(* Properties *)

CallIdx == 1..Len(calls)

Issued(op, id) == \E i \in CallIdx : calls[i].op = op /\ calls[i].id = id

IssuedOp(op) == \E i \in CallIdx : calls[i].op = op

RunSucceeded == pc = "done" /\ result = "ok"

\* the tree declares the policy name / the mount path
PolicyDeclared(n) == \E i \in 1..Len(policyFiles) : policyFiles[i].base = n

MountDeclared(p) ==
    \E i \in 1..Len(authFiles) : sysAuthPath(authFiles[i].name) = p

\* the seconds a declared lease duration stands for
DeclaredSeconds(ttl) ==
    CASE ttl = <<>> -> 0 [] ttl = Str1m -> 60 [] ttl = Str1m10s -> 70

(* C1: no protected identifier is ever passed to a delete/disable call:    *)
(* DeletePolicy is never called for "root" or "default", DisableAuth never *)
(* for a mount that was live with type "token" when the run started.       *)
ProtectedNeverPruned ==
    \A i \in CallIdx :
        /\ calls[i].op = "DeletePolicy" => calls[i].id \notin {"root", "default"}
        /\ calls[i].op = "DisableAuth" => startAuth[calls[i].id].Type # "token"

\* a successful run on a tree that declares nothing, which pruned on both
\* sides and left the protected resources in place
ProtectedSpared ==
    /\ RunSucceeded
    /\ policyFiles = <<>> /\ authFiles = <<>>
    /\ pruneRuns["SysAuth"] = 1 /\ pruneRuns["SysPolicy"] = 1
    /\ IssuedOp("DeletePolicy") /\ IssuedOp("DisableAuth")
    /\ remotePolicy["root"] # NoPolicy /\ remotePolicy["default"] # NoPolicy
    /\ remoteAuth["token/"].Type = "token"

(* C2: after a run that returns success, every policy and mount that was   *)
(* live at the start, is not declared and is not protected, is absent from *)
(* the live state (stated for the resources whose subtree directory        *)
(* exists in the tree).                                                    *)
PruningCorrect ==
    RunSucceeded =>
        /\ SysPolicyDir \in dirs =>
             \A n \in PolicyNames :
                 (/\ startPolicy[n] # NoPolicy
                  /\ ~PolicyDeclared(n)
                  /\ n \notin {"root", "default"}) => remotePolicy[n] = NoPolicy
        /\ SysAuthDir \in dirs =>
             \A p \in MountPaths :
                 (/\ startAuth[p] # NoMount
                  /\ ~MountDeclared(p)
                  /\ startAuth[p].Type # "token") => remoteAuth[p] = NoMount

(* C3, as claimed: after a run that returns success, for every declared    *)
(* resource the live state holds a resource at the same identifier with    *)
(* canonically equal configuration (policies: the identical text).         *)
CompleteEveryFile ==
    RunSucceeded =>
        /\ \A i \in 1..Len(policyFiles) :
               remotePolicy[policyFiles[i].base] = policyFiles[i].policy
        /\ \A i \in 1..Len(authFiles) :
               LET m == remoteAuth[sysAuthPath(authFiles[i].name)]
                   c == authFiles[i].opts.Config
               IN  /\ m # NoMount
                   /\ m.Config =
                        [DefaultLeaseTTL |-> DeclaredSeconds(c.DefaultLeaseTTL),
                         MaxLeaseTTL |-> DeclaredSeconds(c.MaxLeaseTTL),
                         PluginName |-> c.PluginName,
                         ListingVisibility |-> c.ListingVisibility,
                         PassthroughRequestHeaders |->
                             c.PassthroughRequestHeaders]

(* C3, amended: the same, where for a policy name that several files       *)
(* declare the live document is the text of the file visited last.         *)
CompleteLastFile ==
    RunSucceeded =>
        /\ \A i \in 1..Len(policyFiles) :
               (\A j \in (i + 1)..Len(policyFiles) :
                    policyFiles[j].base # policyFiles[i].base)
               => remotePolicy[policyFiles[i].base] = policyFiles[i].policy
        /\ \A i \in 1..Len(authFiles) :
               LET m == remoteAuth[sysAuthPath(authFiles[i].name)]
                   c == authFiles[i].opts.Config
               IN  /\ m # NoMount
                   /\ m.Config =
                        [DefaultLeaseTTL |-> DeclaredSeconds(c.DefaultLeaseTTL),
                         MaxLeaseTTL |-> DeclaredSeconds(c.MaxLeaseTTL),
                         PluginName |-> c.PluginName,
                         ListingVisibility |-> c.ListingVisibility,
                         PassthroughRequestHeaders |->
                             c.PassthroughRequestHeaders]

\* a successful run that put two documents under one policy name and
\* enabled a declared mount
CompletedWithWork ==
    /\ RunSucceeded
    /\ Len(policyFiles) = 2
    /\ policyFiles[1].base = policyFiles[2].base
    /\ policyFiles[1].policy # policyFiles[2].policy
    /\ Len(authFiles) = 1
    /\ IssuedOp("EnableAuth") /\ IssuedOp("PutPolicy")
    /\ startAuth["ldap/"] # NoMount

(* C4: a run that follows a successful run on the same tree, the live      *)
(* state unchanged in between, issues no mutating call (stated for trees   *)
(* in which no two policy files share a base name).                        *)
SecondRunIdle ==
    (/\ run > 1 /\ prevResult = "ok"
     /\ \A i, j \in 1..Len(policyFiles) :
            i # j => policyFiles[i].base # policyFiles[j].base)
    => \A k \in CallIdx : calls[k].op \notin MutatingOps

(* C5: within one PutPoliciesFromDir pruning runs at most once, and only   *)
(* after every file of the subtree was visited and ensured; no             *)
(* delete/disable call precedes an ensure call of the same handler; a      *)
(* handler whose walk failed issues no delete/disable call; a handler      *)
(* that returns success has pruned exactly once.                           *)
PruneOnceAfterWalk ==
    /\ \A h \in {"SysAuth", "SysPolicy"} :
           /\ pruneRuns[h] <= 1
           /\ h \in walkFailed => pruneRuns[h] = 0
           /\ (pc = "return" /\ hres = "ok" /\ Running(h)) => pruneRuns[h] = 1
    /\ pruneRuns["SysPolicy"] = 1 =>
           /\ Len(configuredPolicyList) = Len(policyFiles)
           /\ \A i \in 1..Len(policyFiles) :
                  /\ policyFiles[i].kind = "ok"
                  /\ configuredPolicyList[i] = policyFiles[i].base
    /\ pruneRuns["SysAuth"] = 1 =>
           \A i \in 1..Len(authFiles) :
               /\ authFiles[i].kind = "ok"
               /\ sysAuthPath(authFiles[i].name) \in DOMAIN configuredAuthMap
    /\ pruneRuns["SysPolicy"] = 0 => ~IssuedOp("DeletePolicy")
    /\ pruneRuns["SysAuth"] = 0 => ~IssuedOp("DisableAuth")
    /\ \A i, j \in CallIdx :
           i < j =>
               /\ ~(/\ calls[i].op = "DeletePolicy"
                    /\ calls[j].op \in {"GetPolicy", "PutPolicy"})
               /\ ~(calls[i].op = "DisableAuth" /\ calls[j].op = "EnableAuth")

\* a policy handler that ensured a file and then deleted a policy, beside
\* an auth handler whose walk failed and that did not prune
PrunedAfterEnsure ==
    /\ pruneRuns["SysPolicy"] = 1
    /\ IssuedOp("PutPolicy") /\ IssuedOp("DeletePolicy")
    /\ "SysAuth" \in walkFailed
    /\ startAuth["old/"] # NoMount

(* C6: when a mutating remote call fails, the run returns an error and     *)
(* issues no further remote call.                                          *)
FailFastMutating ==
    \A i \in CallIdx :
        (calls[i].op \in MutatingOps /\ ~calls[i].ok) =>
            /\ i = Len(calls)
            /\ pc = "done" => result = "err"

(* C7: when GetPolicy fails for a policy of the live snapshot, the run     *)
(* aborts with an error and no PutPolicy is issued for that policy.        *)
FailFastReads ==
    \A i \in CallIdx :
        (calls[i].op = "GetPolicy" /\ ~calls[i].ok) =>
            /\ \A j \in CallIdx :
                   j > i => ~(calls[j].op = "PutPolicy" /\ calls[j].id = calls[i].id)
            /\ pc = "done" => result = "err"

(* C8: with one declared policy file ops, a live policy legacy and no live *)
(* ops, one successful run issues PutPolicy(ops) and DeletePolicy(legacy), *)
(* and the live state then holds ops with the declared body and no legacy. *)
EndToEndPolicy ==
    (/\ run = 1 /\ RunSucceeded
     /\ policyFiles = <<PolicyFile("ok", "ops", BodyA)>>
     /\ startPolicy["legacy"] # NoPolicy /\ startPolicy["ops"] = NoPolicy)
    => /\ Issued("PutPolicy", "ops") /\ Issued("DeletePolicy", "legacy")
       /\ remotePolicy["ops"] = BodyA
       /\ remotePolicy["legacy"] = NoPolicy

\* the Order() of the handlers in the order of their invocation
InvokedOrders == [k \in 1..Len(invoked) |-> HandlerMap[invoked[k].prefix].order]

(* C9: the handlers are invoked in ascending Order(), those of Order()     *)
(* zero after all others; handlers of priorities 1, 2 and 0 are invoked in *)
(* that order, whatever the iteration order of the map.                    *)
DispatchOrdered ==
    /\ \A i, j \in 1..Len(invoked) :
           i < j =>
               \/ InvokedOrders[j] = 0
               \/ InvokedOrders[i] # 0 /\ InvokedOrders[i] <= InvokedOrders[j]
    /\ (/\ pc = "done" /\ result = "ok"
        /\ {HandlerMap[p].order : p \in DOMAIN HandlerMap} = {0, 1, 2}
        /\ Cardinality(DOMAIN HandlerMap) = 3)
       => InvokedOrders = <<1, 2, 0>>

\* a run over three bindings of priorities 1, 2 and 0, all invoked
DispatchedThree ==
    /\ pc = "done" /\ result = "ok"
    /\ InvokedOrders = <<1, 2, 0>>
    /\ HandlerMap[Star].order = 1

(* C10: when bindings exist for a prefix and for one of its descendants,   *)
(* the descendant binding's handler is never invoked, in the ordered loop  *)
(* or in the fallback traversal.                                           *)
DescendantNeverInvoked ==
    \A k \in 1..Len(invoked) : ~hasParentHandler(HandlerMap, invoked[k].prefix)

(* C16: when a handler's PutPoliciesFromDir returns an error in the        *)
(* ordered loop, no later handler of the sorted order is invoked, the      *)
(* fallback traversal is not started, and Run returns the error.           *)
DispatchFailFast ==
    hres = "err" =>
        /\ pc \in {"return", "done"}
        /\ pc = "done" => result = "err"
        /\ via = "loop"
        /\ Len(invoked) = idx
        /\ \A k \in 1..idx : invoked[k].prefix = paths[k] /\ invoked[k].via = "loop"
        /\ wi = 1

\* a run that ended with the error of a handler while a later handler of
\* the sorted order was still to be invoked
DispatchAborted ==
    /\ pc = "done" /\ result = "err" /\ hres = "err"
    /\ Len(paths) = 3
    /\ Len(invoked) < Len(paths)

(* C17: the live snapshot is read once, at the handler's construction, and *)
(* no later operation changes it: after any ensure and prune calls          *)
(* liveAuthMap and livePolicyList still hold what the remote held when the  *)
(* run started, and ListAuth / ListPolicies is not called again.            *)
SnapshotFrame ==
    /\ HandlerMap # EmptyMap =>
         /\ liveAuthMap =
              IF SysAuthDir \in dirs
              THEN [p \in {q \in MountPaths : startAuth[q] # NoMount} |-> startAuth[p]]
              ELSE EmptyMap
         /\ livePolicyList =
              IF SysPolicyDir \in dirs
              THEN SelectSeq(PolicyOrder, LAMBDA n : startPolicy[n] # NoPolicy)
              ELSE <<>>
    /\ \A i, j \in CallIdx :
           (i < j /\ calls[j].op \in {"ListAuth", "ListPolicies"})
           => calls[i].op = "ListAuth" /\ calls[j].op = "ListPolicies"

\* a finished run whose ensure and prune calls changed mounts and policies,
\* the snapshots still as read at construction
SnapshotStale ==
    /\ pc = "done"
    /\ IssuedOp("EnableAuth") /\ IssuedOp("DisableAuth")
    /\ IssuedOp("PutPolicy") /\ IssuedOp("DeletePolicy")
    /\ liveAuthMap # ListAuth(remoteAuth)
    /\ livePolicyList # ListPolicies(remotePolicy)

(* C18: a typed handler is bound only when its subtree directory exists in *)
(* the tree, and the binding "*" is always present; when the tree has no    *)
(* sys/policy (resp. sys/auth) directory the run issues no DeletePolicy     *)
(* (resp. DisableAuth) call, whatever the live state.                       *)
BoundOnlyWhenPresent ==
    /\ HandlerMap # EmptyMap =>
         /\ Star \in DOMAIN HandlerMap
         /\ SysAuthDir \in DOMAIN HandlerMap <=> SysAuthDir \in dirs
         /\ SysPolicyDir \in DOMAIN HandlerMap <=> SysPolicyDir \in dirs
    /\ SysPolicyDir \notin dirs => ~IssuedOp("DeletePolicy")
    /\ SysAuthDir \notin dirs => ~IssuedOp("DisableAuth")

\* a successful run on a tree without sys/policy that pruned a mount and
\* left an undeclared live policy in place
UnboundNotPruned ==
    /\ RunSucceeded
    /\ SysPolicyDir \notin dirs /\ SysAuthDir \in dirs
    /\ DOMAIN HandlerMap = {Star, SysAuthDir}
    /\ startPolicy["legacy"] # NoPolicy /\ remotePolicy["legacy"] # NoPolicy
    /\ IssuedOp("DisableAuth")

\* the file declares a lease duration that is no duration expression
InvalidDuration(f) ==
    /\ f.kind = "ok"
    /\ \E ttl \in {f.opts.Config.DefaultLeaseTTL, f.opts.Config.MaxLeaseTTL} :
           ttl # <<>> /\ ~ParseDuration(ttl).ok

(* C19: when a declared mount has a duration field that is no valid        *)
(* duration expression, ensureAuth returns an error without a remote call  *)
(* and without adding the mount path to configuredAuthMap, and the handler *)
(* does no pruning: the run ends with the error.                           *)
InvalidDurationAborts ==
    \A i \in 1..Len(authFiles) :
        (/\ InvalidDuration(authFiles[i])
         /\ \A j \in 1..(i - 1) : authFiles[j].name # authFiles[i].name)
        => /\ ~Issued("EnableAuth", sysAuthPath(authFiles[i].name))
           /\ sysAuthPath(authFiles[i].name) \notin DOMAIN configuredAuthMap
           /\ pruneRuns["SysAuth"] = 0
           /\ ~IssuedOp("DisableAuth")
           /\ (Running("SysAuth") /\ pc \in {"return", "done"})
              => hres = "err" /\ "SysAuth" \in walkFailed
           /\ (pc = "done" /\ result # "fatal") => result = "err"

\* a run that ended with the error of an invalid duration: no remote call
\* had failed, and a live mount that no file declares was left enabled
InvalidDurationSeen ==
    /\ pc = "done" /\ result = "err"
    /\ Len(authFiles) = 1 /\ InvalidDuration(authFiles[1])
    /\ "SysAuth" \in walkFailed
    /\ \A i \in CallIdx : calls[i].ok
    /\ startAuth["old/"] # NoMount /\ remoteAuth["old/"] # NoMount

(* C20: in a run each bound handler's PutPoliciesFromDir is invoked at     *)
(* most once: the fallback traversal invokes no handler on a bound         *)
(* directory that the ordered loop has processed, nor on a descendant of a *)
(* bound directory.                                                        *)
InvokedAtMostOnce ==
    /\ \A i, j \in 1..Len(invoked) :
           i # j => invoked[i].prefix # invoked[j].prefix
    /\ \A k \in 1..Len(invoked) :
           invoked[k].via = "fallback" =>
               /\ \A j \in 1..(k - 1) : invoked[j].prefix # invoked[k].prefix
               /\ ~hasParentHandler(HandlerMap, invoked[k].prefix)

\* a finished run over bindings for auth and secret, both directories of
\* the tree, auth with the subdirectory auth/ldap: two invocations
WalkedPastBound ==
    /\ pc = "done" /\ result = "ok"
    /\ DOMAIN HandlerMap = {<<"auth">>, <<"secret">>}
    /\ {<<"auth">>, <<"auth", "ldap">>, <<"secret">>} \subseteq dirs
    /\ Visited = {<<"auth">>, <<"secret">>}
    /\ Len(invoked) = 2

\* the calls of op that the remote answered with success, in order
Succeeded(op) ==
    LET done == SelectSeq(calls, LAMBDA c : c.op = op /\ c.ok)
    IN  [k \in 1..Len(done) |-> done[k].id]

(* C15: the identifiers a handler pruned are exactly the live snapshot     *)
(* minus the ConfiguredSet minus the ProtectedSet, none of them ensured in *)
(* the run, and the list RemoveUndeclaredPolicies returns holds, in the    *)
(* order of the snapshot, exactly the policies removed from the remote.    *)
PrunedExactly ==
    /\ (Running("SysPolicy") /\ pc = "return" /\ hres = "ok") =>
         /\ deleted = SelectSeq(livePolicyList,
                                LAMBDA n : /\ ~InSeq(n, configuredPolicyList)
                                           /\ n \notin {"root", "default"})
         /\ deleted = Succeeded("DeletePolicy")
         /\ \A k \in 1..Len(deleted) : remotePolicy[deleted[k]] = NoPolicy
    /\ (Running("SysAuth") /\ pc = "return" /\ hres = "ok") =>
         {calls[i].id : i \in {j \in CallIdx : calls[j].op = "DisableAuth"}}
           = {p \in DOMAIN liveAuthMap :
                p \notin DOMAIN configuredAuthMap /\ liveAuthMap[p].Type # "token"}
    /\ \A i, j \in CallIdx :
           /\ ~(/\ calls[i].op = "PutPolicy" /\ calls[j].op = "DeletePolicy"
                /\ calls[i].id = calls[j].id)
           /\ ~(/\ calls[i].op = "EnableAuth" /\ calls[j].op = "DisableAuth"
                /\ calls[i].id = calls[j].id)

\* the place of a prefix in the lexical order of the paths
LexIndex(p) == CHOOSE i \in 1..Len(DirOrder) : DirOrder[i] = p

(* C14: for a fixed set of bindings the handlers of Order() zero are       *)
(* dispatched in the same order in every run, the lexical order of their   *)
(* prefixes, whatever the iteration order of the map.                      *)
ZeroOrderLexicographic ==
    \A i, j \in 1..Len(invoked) :
        (/\ i < j
         /\ HandlerMap[invoked[i].prefix].order = 0
         /\ HandlerMap[invoked[j].prefix].order = 0)
        => LexIndex(invoked[i].prefix) < LexIndex(invoked[j].prefix)

\* the configuration a declared one stands for, in the server's form
Canonical(c) ==
    [DefaultLeaseTTL |-> DeclaredSeconds(c.DefaultLeaseTTL),
     MaxLeaseTTL |-> DeclaredSeconds(c.MaxLeaseTTL),
     PluginName |-> c.PluginName,
     ListingVisibility |-> c.ListingVisibility,
     PassthroughRequestHeaders |-> c.PassthroughRequestHeaders]

\* walkFile has returned for the i-th file of sys/auth
AuthFileDone(i) ==
    /\ \E k \in 1..Len(invoked) : invoked[k].prefix = SysAuthDir
    /\ fi > i \/ (fi = i /\ "SysAuth" \in walkFailed)

(* C13: ConvertAuthConfig maps a duration string to whole seconds ("1m10s" *)
(* to 70, "1m" to 60), an empty duration to 0 without error, and copies    *)
(* the other fields; ensureAuth skips EnableAuth exactly when the declared *)
(* path is in the live snapshot and the converted declared configuration   *)
(* equals the live one.                                                    *)
EnsureByCanonicalEquality ==
    \A i \in 1..Len(authFiles) :
        LET f == authFiles[i]
            path == sysAuthPath(f.name)
        IN  (/\ f.kind = "ok" /\ ~InvalidDuration(f)
             /\ \A j \in 1..Len(authFiles) : j # i => authFiles[j].name # f.name)
            => /\ ConvertAuthConfig(f.opts.Config)
                    = [ok |-> TRUE, output |-> Canonical(f.opts.Config)]
               /\ AuthFileDone(i) =>
                    /\ configuredAuthMap[path].Config = Canonical(f.opts.Config)
                    /\ Issued("EnableAuth", path)
                       <=> ~(/\ path \in DOMAIN liveAuthMap
                             /\ liveAuthMap[path].Config
                                  = Canonical(f.opts.Config))

\* a declared mount ldap with lease "1m10s" met a live mount of 70 seconds
\* and otherwise equal configuration: ensured without EnableAuth
SkippedAsEqual ==
    /\ Len(authFiles) = 1 /\ authFiles[1].name = "ldap"
    /\ authFiles[1].opts.Config.DefaultLeaseTTL = Str1m10s
    /\ authFiles[1].opts.Config.MaxLeaseTTL = <<>>
    /\ fi = 2
    /\ liveAuthMap["ldap/"].Config.DefaultLeaseTTL = 70
    /\ "ldap/" \in DOMAIN configuredAuthMap
    /\ ~IssuedOp("EnableAuth")

\* the file names that begin with the underscore
ExcludedNames == {"_meta"}

(* C12: a file of sys/auth or sys/policy whose name begins with an         *)
(* underscore is never treated as a resource: no ensure call and no remote *)
(* call is made for it, and it is not added to the configured set.         *)
ExcludedNeverResource ==
    /\ \A i \in 1..Len(authFiles) :
           authFiles[i].name \in ExcludedNames =>
               /\ sysAuthPath(authFiles[i].name) \notin DOMAIN configuredAuthMap
               /\ ~Issued("EnableAuth", sysAuthPath(authFiles[i].name))
    /\ \A i \in 1..Len(policyFiles) :
           policyFiles[i].base \in ExcludedNames =>
               /\ ~InSeq(policyFiles[i].base, configuredPolicyList)
               /\ ~Issued("GetPolicy", policyFiles[i].base)
               /\ ~Issued("PutPolicy", policyFiles[i].base)

(* C11: after the bound subtrees are processed, every directory of the     *)
(* tree that no typed handler owns (such as secret) is applied by the      *)
(* generic handler: each of its files results in a generic write.          *)
GenericFallback ==
    RunSucceeded =>
        \A d \in dirs \ {Root, SysAuthDir, SysPolicyDir} :
            \A k \in 1..Len(GenericFiles(d)) : Issued("Write", GenericFiles(d)[k])

SameBaseLastWins ==
    \A i, j \in 1..Len(policyFiles) :
        (i < j /\ policyFiles[i].base = policyFiles[j].base) =>
            /\ pruneRuns["SysPolicy"] = 1 =>
                 /\ configuredPolicyList[i] = policyFiles[i].base
                 /\ configuredPolicyList[j] = policyFiles[i].base
            /\ \A k \in CallIdx :
                   calls[k].op = "PutPolicy" => calls[k].id = policyFiles[i].base
            /\ (/\ RunSucceeded
                /\ \A l \in (j + 1)..Len(policyFiles) :
                       policyFiles[l].base # policyFiles[j].base)
               => remotePolicy[policyFiles[j].base] = policyFiles[j].policy

\* a successful first run over two files ops, the first with the body the
\* remote held and the second with another: the second body is live
LastBodyLive ==
    /\ RunSucceeded /\ run = 1
    /\ policyFiles = <<PolicyFile("ok", "ops", BodyA), PolicyFile("ok", "ops", BodyB)>>
    /\ startPolicy["ops"] = BodyA
    /\ configuredPolicyList = <<"ops", "ops">>
    /\ Issued("PutPolicy", "ops")
    /\ remotePolicy["ops"] = BodyB

(* C21: when the directory passed to a typed handler's PutPoliciesFromDir  *)
(* does not exist, the walk is a benign skip with an empty configured set  *)
(* and pruning still runs: the handler returns success after deleting or   *)
(* disabling every unprotected resource of its live snapshot.              *)
MissingDirStillPrunes ==
    (cur \notin dirs /\ pc = "return") =>
        /\ walkFailed = {}
        /\ configuredAuthMap = EmptyMap /\ configuredPolicyList = <<>>
        /\ \A h \in {"SysAuth", "SysPolicy"} : Running(h) => pruneRuns[h] = 1
        /\ (\A i \in CallIdx : calls[i].ok) => hres = "ok"
        /\ hres = "ok" =>
             /\ Running("SysPolicy") =>
                  \A n \in PolicyNames :
                      (startPolicy[n] # NoPolicy /\ n \notin {"root", "default"})
                      => remotePolicy[n] = NoPolicy
             /\ Running("SysAuth") =>
                  \A p \in MountPaths :
                      (startAuth[p] # NoMount /\ startAuth[p].Type # "token")
                      => remoteAuth[p] = NoMount

====
